---- MODULE Spec2Model ----
(***************************************************************************)
(* Model of the two emitter backends of simplelog:                         *)
(*   SimpleLogger (src/loggers/simplelog.rs), the plain emitter, and       *)
(*   TermLogger   (src/loggers/termlog.rs),   the terminal emitter.        *)
(*                                                                         *)
(* Spec      : threads calling log() on one constructed TermLogger and one *)
(*             constructed SimpleLogger.  A TermLogger call is a sequence  *)
(*             of steps (lock, write_time, fg, write_level, reset,         *)
(*             write_target, write_location, write_args, flush); each step *)
(*             can succeed or return an I/O error, and the formatting of   *)
(*             the caller's message can panic.                             *)
(* SpecSeq   : the same with one thread, over every filter level and every *)
(*             configuration.                                              *)
(* SpecFlush : threads calling flush() as well as log().                   *)
(* SpecCtor  : construction (new) and global initialisation (init).        *)
(***************************************************************************)
EXTENDS Integers, Sequences, FiniteSets, TLC

\* ---------------------------------------------------------------- bounds
NThreads == 2
MaxCalls == 2
MaxFaults == 1

\* ------------------------------------------------- log::Level / LevelFilter
\* log::LevelFilter::Off and the five log::Level values, with the ordinals
\* the log crate compares them by (Level <= LevelFilter compares ordinals).
Off == 0
Error == 1
Warn == 2
Info == 3
Debug == 4
Trace == 5

Level == {Error, Warn, Info, Debug, Trace}
LevelFilter == {Off} \cup Level

\* Option<Level>: None is the empty sequence, Some(l) the one-element one.
None == << >>
Some(l) == << l >>

\* The two destinations.
Dests == {"stderr", "stdout"}

Threads == 1 .. NThreads

\* term::color values used by try_log_term, and the terminal's default.
DEFAULT == "DEFAULT"

\* The Display Configurations the emitters are constructed with: each of the
\* four per-field thresholds takes every value of Option<Level> in some
\* configuration (Thr rotated over the fields), plus the configuration with
\* every field disabled.
Thr == << None, Some(Error), Some(Warn), Some(Info), Some(Debug), Some(Trace) >>
Rot(k) == [time     |-> Thr[(k % 6) + 1],
           level    |-> Thr[((k + 1) % 6) + 1],
           target   |-> Thr[((k + 2) % 6) + 1],
           location |-> Thr[((k + 3) % 6) + 1]]
AllNone == [time |-> None, level |-> None, target |-> None, location |-> None]
Configs == {Rot(k) : k \in 0 .. 5} \cup {AllNone}

VARIABLES
    termlogger,    \* Option<Box<TermLogger>>: what TermLogger::new gave last
    simplelogger,  \* Option<Box<SimpleLogger>>: None before SimpleLogger::new
    built,         \* per emitter, the arguments (log_level, config) its
                   \* constructor was called with last, None before
    mutex,         \* TermLogger.stderr / .stdout Mutex: [holder, poisoned]
    terminal,      \* the terminal behind each mutex: [fg, pending, content],
                   \* content the severities of the records written to it
    line,          \* per terminal, the operations attempted on it under the
                   \* guard that is alive
    plain,         \* per plain stream, the severities of the lines on it
    pc,            \* per thread, its position in log()
    rec,           \* per thread, the severity of the record of its call
    emitter,       \* per thread, the emitter it is calling
    last,          \* the call that returned last: [emitter, en, ret], en what
                   \* enabled() gave, ret the result of the try_log chain
                   \* ("flush" for a call of flush)
    ncalls,        \* number of log calls begun
    faults,        \* number of failures injected so far
    avail,         \* whether term::stderr() / term::stdout() yield a handle
    called,        \* the construction function that ran last
    initres,       \* what the last init returned
    global,        \* the logger registered with the log facade
    maxlevel       \* the facade's maximum level

vars == << termlogger, simplelogger, built, mutex, terminal, line, plain, pc, rec,
           emitter, last, ncalls, faults, avail, called, initres, global,
           maxlevel >>

ctorvars == << avail, called, initres, global, maxlevel >>
loggers == << termlogger, simplelogger, built >>
logvars == << mutex, terminal, line, plain, pc, rec, emitter, last, ncalls,
              faults >>

\* ------------------------------------------------------- pure operations

\* (mutant) the comparison the other way round
SimpleLogger_enabled_reversed(lvl, self) == self.level <= lvl

\* SimpleLogger::enabled: metadata.level() <= self.level
SimpleLogger_enabled(lvl, self) == lvl <= self.level

\* (mutant) a strict comparison
TermLogger_enabled_strict(lvl, self) == lvl < self.level

\* TermLogger::enabled: metadata.level() <= self.level
TermLogger_enabled(lvl, self) == lvl <= self.level

\* The match on record.level() in SimpleLogger::log: Error => stderr, _ => stdout
SimpleLogger_dest(lvl) == IF lvl = Error THEN "stderr" ELSE "stdout"

\* (mutant) warnings go to stderr as well
TermLogger_dest_warn(lvl) == IF lvl <= Warn THEN "stderr" ELSE "stdout"

\* (mutant) one destination, and so one lock, for every record
TermLogger_dest_single(lvl) == "stdout"

\* The test in TermLogger::try_log: Error => self.stderr, else self.stdout
TermLogger_dest(lvl) == IF lvl = Error THEN "stderr" ELSE "stdout"

\* (mutant) the colours of Info and Debug exchanged
color_swapped(lvl) ==
    CASE lvl = Error -> "RED"
      [] lvl = Warn  -> "YELLOW"
      [] lvl = Info  -> "CYAN"
      [] lvl = Debug -> "BLUE"
      [] lvl = Trace -> "WHITE"

\* The colour try_log_term picks for a record.
color(lvl) ==
    CASE lvl = Error -> "RED"
      [] lvl = Warn  -> "YELLOW"
      [] lvl = Info  -> "BLUE"
      [] lvl = Debug -> "CYAN"
      [] lvl = Trace -> "WHITE"

\* (mutant) the threshold compared the other way round
FieldGate_reversed(opt, lvl) == Len(opt) = 1 /\ lvl <= opt[1]

\* if let Some(x) = self.config.<field> { if x <= record.level() { ... } }
FieldGate(opt, lvl) == Len(opt) = 1 /\ opt[1] <= lvl

\* The steps of try_log_term in program order.
Steps == << "time", "fg", "level", "reset", "target", "location", "args",
            "flush" >>
StepNames == {Steps[i] : i \in 1 .. Len(Steps)}

\* (mutant) the message is gated by the level threshold like the label
StepGate_gated_message(op, cfg, lvl) ==
    CASE op = "time"                     -> FieldGate(cfg.time, lvl)
      [] op \in {"fg", "level", "reset", "args"} -> FieldGate(cfg.level, lvl)
      [] op = "target"                   -> FieldGate(cfg.target, lvl)
      [] op = "location"                 -> FieldGate(cfg.location, lvl)
      [] op = "flush"                    -> TRUE

\* Whether try_log_term reaches the step for this configuration and record.
StepGate(op, cfg, lvl) ==
    CASE op = "time"                     -> FieldGate(cfg.time, lvl)
      [] op \in {"fg", "level", "reset"} -> FieldGate(cfg.level, lvl)
      [] op = "target"                   -> FieldGate(cfg.target, lvl)
      [] op = "location"                 -> FieldGate(cfg.location, lvl)
      [] op \in {"args", "flush"}        -> TRUE

StepIndex(op) == CHOOSE i \in 1 .. Len(Steps) : Steps[i] = op

\* The first step after position i that try_log_term executes; "return" when
\* the function runs off its end (Ok(())).
StepFrom(i, cfg, lvl) ==
    LET later == {j \in (i + 1) .. Len(Steps) : StepGate(Steps[j], cfg, lvl)}
    IN  IF later = {} THEN "return"
        ELSE Steps[CHOOSE j \in later : \A k \in later : j <= k]

FirstStep(cfg, lvl) == StepFrom(0, cfg, lvl)
NextStep(op, cfg, lvl) == StepFrom(StepIndex(op), cfg, lvl)

\* (mutant) the error of a step is dropped and rendering goes on
OnErr_ignored(op, cfg, lvl) == NextStep(op, cfg, lvl)

\* try!(...) on a step that returned Err: the function returns the error.
OnErr(op, cfg, lvl) == "return"

\* (mutant) a lock that does not exclude
MutexFree_always(m) == TRUE

\* Mutex::lock blocks while another guard is alive.
MutexFree(m) == m.holder = 0

\* logging::write_time, write_level, write_target, write_location and
\* write_args: bytes of the record are written to the given stream, where
\* they stay buffered until a flush.
logging_write(term, lvl) ==
    [term EXCEPT !.pending = TRUE, !.content = @ \cup {lvl}]

\* What a successful step does to the terminal.
TermEffect(op, term, lvl) ==
    CASE op = "fg"    -> [term EXCEPT !.fg = color(lvl)]
      [] op = "reset" -> [term EXCEPT !.fg = DEFAULT]
      [] op = "flush" -> [term EXCEPT !.pending = FALSE]
      [] OTHER        -> logging_write(term, lvl)

\* logging::try_log as SimpleLogger uses it: one rendered and flushed line
\* of the record on the locked stream.
logging_try_log(stream, lvl) == stream \cup {lvl}

\* Option::and_then and Option::map.
and_then(o, F(_)) == IF o = None THEN None ELSE F(o[1])
map(o, F(_)) == IF o = None THEN None ELSE Some(F(o[1]))

\* term::stderr() / term::stdout(): the handle, when the process has one.
term_stderr(env) == IF env.stderr THEN Some("StderrTerminal") ELSE None
term_stdout(env) == IF env.stdout THEN Some("StdoutTerminal") ELSE None

\* (mutant) a missing stderr terminal does not stop the construction
TermLogger_new_partial(log_level, config, env) ==
    map(term_stdout(env), LAMBDA o :
        [level |-> log_level, config |-> config,
         stderr |-> "StderrTerminal", stdout |-> o])

\* TermLogger::new
TermLogger_new(log_level, config, env) ==
    and_then(term_stderr(env), LAMBDA e :
        map(term_stdout(env), LAMBDA o :
            [level |-> log_level, config |-> config,
             stderr |-> e, stdout |-> o]))

\* (mutant) the configuration passed in is dropped for one with no field
SimpleLogger_new_default(log_level, config) ==
    [level |-> log_level, config |-> AllNone]

\* SimpleLogger::new
SimpleLogger_new(log_level, config) ==
    [level |-> log_level, config |-> config]

\* SharedLogger::level and SharedLogger::config of the two emitters.
TermLogger_level(self) == self.level
TermLogger_config(self) == Some(self.config)
SimpleLogger_level(self) == self.level
SimpleLogger_config(self) == Some(self.config)

\* Option::ok_or(Term) in TermLogger::init
ok_or_Term(o) == IF o = None THEN "Term" ELSE "Ok"

\* log::set_boxed_logger: fails once a logger is registered.
set_boxed_logger(g, name) ==
    IF g = "none" THEN [res |-> "Ok", global |-> name]
    ELSE [res |-> "SetLogger", global |-> g]

\* ---------------------------------------------------------------- Init

LogInit ==
    /\ mutex = [d \in Dests |-> [holder |-> 0, poisoned |-> FALSE]]
    /\ terminal = [d \in Dests |->
                     [fg |-> DEFAULT, pending |-> FALSE, content |-> {}]]
    /\ line = [d \in Dests |-> << >>]
    /\ plain = [d \in Dests |-> {}]
    /\ pc = [t \in Threads |-> "idle"]
    /\ rec = [t \in Threads |-> 0]
    /\ emitter = [t \in Threads |-> "none"]
    /\ last = [emitter |-> "none", en |-> FALSE, ret |-> "none"]
    /\ ncalls = 0
    /\ faults = 0

\* The two emitters were built by TermLogger::new and SimpleLogger::new
\* with the same arguments, on a process that has both terminals.
Constructed(lvl, cfg) ==
    /\ avail = [stderr |-> TRUE, stdout |-> TRUE]
    /\ termlogger = TermLogger_new(lvl, cfg, avail)
    /\ simplelogger = Some(SimpleLogger_new(lvl, cfg))
    /\ built = [term |-> Some(<< lvl, cfg >>), simple |-> Some(<< lvl, cfg >>)]
    /\ called = "TermLogger::new"
    /\ initres = "none"
    /\ global = "none"
    /\ maxlevel = Off

\* The arguments the emitters of the concurrent runs, and of the runs of
\* the construction functions, are constructed with.
ConcInputs == { << Info, cfg >> : cfg \in Configs } \cup
              { << Trace, Rot(0) >>, << Warn, AllNone >>, << Off, Rot(1) >> }

Init ==
    /\ \E a \in ConcInputs : Constructed(a[1], a[2])
    /\ LogInit

\* The same, over every filter level and every configuration of Configs.
InitSeq ==
    /\ \E lvl \in LevelFilter, cfg \in Configs : Constructed(lvl, cfg)
    /\ LogInit

\* Before any construction: the process may lack either terminal, and
\* another logger may be registered with the facade already.
InitCtor ==
    /\ avail \in [stderr : BOOLEAN, stdout : BOOLEAN]
    /\ global \in {"none", "other"}
    /\ maxlevel \in {Off, Warn}
    /\ termlogger = None
    /\ simplelogger = None
    /\ built = [term |-> None, simple |-> None]
    /\ called = "none"
    /\ initres = "none"
    /\ LogInit

\* ------------------------------------------------------------- actions

\* A thread calls log(record) on one of the two emitters.
Call(t, e, lvl) ==
    /\ pc[t] = "idle"
    /\ ncalls < MaxCalls
    /\ ncalls' = ncalls + 1
    /\ pc' = [pc EXCEPT ![t] = "log"]
    /\ rec' = [rec EXCEPT ![t] = lvl]
    /\ emitter' = [emitter EXCEPT ![t] = e]
    /\ UNCHANGED << mutex, terminal, line, plain, last, faults >>
    /\ UNCHANGED << loggers, ctorvars >>

\* log() returns to its caller; the record is gone.
Returned(t, e, r) ==
    /\ pc' = [pc EXCEPT ![t] = "idle"]
    /\ rec' = [rec EXCEPT ![t] = 0]
    /\ emitter' = [emitter EXCEPT ![t] = "none"]
    /\ last' = [emitter |-> emitter[t], en |-> e, ret |-> r]

\* SimpleLogger::log: the whole call, under the stream's own lock; the
\* result of try_log is dropped (let _ =).
SimpleLogger_log(t, ok) ==
    /\ pc[t] = "log"
    /\ emitter[t] = "simple"
    /\ LET e == SimpleLogger_enabled(rec[t], simplelogger[1])
           d == SimpleLogger_dest(rec[t])
       IN  IF e
             THEN /\ ok \/ faults < MaxFaults
                  /\ plain' = IF ok
                       THEN [plain EXCEPT ![d] = logging_try_log(@, rec[t])]
                       ELSE plain
                  /\ faults' = IF ok THEN faults ELSE faults + 1
                  /\ Returned(t, TRUE, IF ok THEN "Ok" ELSE "Err")
             ELSE /\ ok
                  /\ UNCHANGED << plain, faults >>
                  /\ Returned(t, FALSE, "Ok")
    /\ UNCHANGED << mutex, terminal, line, ncalls >>
    /\ UNCHANGED << loggers, ctorvars >>

\* TermLogger::log -> try_log: the enabled test; a disabled record returns
\* Ok(()) at once, an enabled one goes on to lock its destination.
TermLogger_try_log(t) ==
    /\ pc[t] = "log"
    /\ emitter[t] = "term"
    /\ IF TermLogger_enabled(rec[t], termlogger[1])
         THEN /\ pc' = [pc EXCEPT ![t] = "lock"]
              /\ UNCHANGED << rec, emitter, last >>
         ELSE Returned(t, FALSE, "Ok")
    /\ UNCHANGED << mutex, terminal, line, plain, ncalls, faults >>
    /\ UNCHANGED << loggers, ctorvars >>

\* (mutant) a call takes the locks of both destinations
TermLogger_lock_both(t) ==
    /\ pc[t] = "lock"
    /\ \A d \in Dests : MutexFree(mutex[d])
    /\ pc' = [pc EXCEPT ![t] = FirstStep(termlogger[1].config, rec[t])]
    /\ mutex' = [d \in Dests |-> [mutex[d] EXCEPT !.holder = t]]
    /\ line' = [d \in Dests |-> << >>]
    /\ UNCHANGED << terminal, plain, rec, emitter, last, ncalls, faults >>
    /\ UNCHANGED << loggers, ctorvars >>

\* self.stderr.lock().unwrap() / self.stdout.lock().unwrap(): blocks while
\* the mutex is held; on a poisoned mutex lock() returns Err and unwrap
\* panics.
TermLogger_lock(t) ==
    /\ pc[t] = "lock"
    /\ LET d == TermLogger_dest(rec[t])
       IN  /\ MutexFree(mutex[d])
           /\ IF mutex[d].poisoned
                THEN /\ pc' = [pc EXCEPT ![t] = "panicked_lock"]
                     /\ UNCHANGED << mutex, line >>
                ELSE /\ pc' = [pc EXCEPT ![t] =
                                 FirstStep(termlogger[1].config, rec[t])]
                     /\ mutex' = [mutex EXCEPT ![d].holder = t]
                     /\ line' = [line EXCEPT ![d] = << >>]
    /\ UNCHANGED << terminal, plain, rec, emitter, last, ncalls, faults >>
    /\ UNCHANGED << loggers, ctorvars >>

\* The entry a step leaves in the terminal's line.
Entry(t, op, fg, r) ==
    [by |-> t, lvl |-> rec[t], op |-> op, fg |-> fg, r |-> r]

\* The guard is dropped.
Release(d) ==
    /\ mutex' = [mutex EXCEPT ![d].holder = 0]
    /\ line' = [line EXCEPT ![d] = << >>]

\* One step of try_log_term that succeeds.  After the last one the function
\* returns Ok(()): the guard is dropped and log returns.
StepOk(t) ==
    /\ pc[t] \in StepNames
    /\ LET op == pc[t]
           d == TermLogger_dest(rec[t])
           nxt == NextStep(op, termlogger[1].config, rec[t])
           term == TermEffect(op, terminal[d], rec[t])
       IN  /\ terminal' = [terminal EXCEPT ![d] = term]
           /\ IF nxt = "return"
                THEN /\ Release(d)
                     /\ Returned(t, TRUE, "Ok")
                ELSE /\ pc' = [pc EXCEPT ![t] = nxt]
                     /\ line' = [line EXCEPT ![d] =
                                   Append(@, Entry(t, op, term.fg, "Ok"))]
                     /\ UNCHANGED << mutex, rec, emitter, last >>
    /\ UNCHANGED << plain, ncalls, faults >>
    /\ UNCHANGED << loggers, ctorvars >>

\* One step of try_log_term that returns an I/O error: try! returns it, the
\* guard is dropped, try_log passes it on and log discards it.
StepErr(t) ==
    /\ pc[t] \in StepNames
    /\ faults < MaxFaults
    /\ LET op == pc[t]
           d == TermLogger_dest(rec[t])
           nxt == OnErr(op, termlogger[1].config, rec[t])
       IN  /\ faults' = faults + 1
           /\ IF nxt = "return"
                THEN /\ Release(d)
                     /\ Returned(t, TRUE, "Err")
                ELSE /\ pc' = [pc EXCEPT ![t] = nxt]
                     /\ line' = [line EXCEPT ![d] =
                          Append(@, Entry(t, op, terminal[d].fg, "Err"))]
                     /\ UNCHANGED << mutex, rec, emitter, last >>
    /\ UNCHANGED << terminal, plain, ncalls >>
    /\ UNCHANGED << loggers, ctorvars >>

\* write_args formats record.args(), the caller's values, whose Display code
\* can panic.  The thread unwinds through the guard, which poisons the mutex
\* and releases it.
StepPanic(t) ==
    /\ pc[t] = "args"
    /\ faults < MaxFaults
    /\ LET d == TermLogger_dest(rec[t])
       IN  /\ mutex' = [mutex EXCEPT ![d] = [holder |-> 0, poisoned |-> TRUE]]
           /\ line' = [line EXCEPT ![d] = << >>]
    /\ faults' = faults + 1
    /\ pc' = [pc EXCEPT ![t] = "panicked_args"]
    /\ UNCHANGED << terminal, plain, rec, emitter, last, ncalls >>
    /\ UNCHANGED << loggers, ctorvars >>

\* (mutant) a flush that does flush the two terminals
TermLogger_flush_flushing(t) ==
    /\ pc[t] = "idle"
    /\ last' = [emitter |-> "term", en |-> FALSE, ret |-> "flush"]
    /\ terminal' = [d \in Dests |-> [terminal[d] EXCEPT !.pending = FALSE]]
    /\ UNCHANGED << mutex, line, plain, pc, rec, emitter, ncalls, faults >>
    /\ UNCHANGED << loggers, ctorvars >>

\* TermLogger::flush: fn flush(&self) { }
TermLogger_flush(t) ==
    /\ pc[t] = "idle"
    /\ last' = [emitter |-> "term", en |-> FALSE, ret |-> "flush"]
    /\ UNCHANGED << mutex, terminal, line, plain, pc, rec, emitter, ncalls,
                    faults >>
    /\ UNCHANGED << loggers, ctorvars >>

\* SimpleLogger::flush: fn flush(&self) { }
SimpleLogger_flush(t) ==
    /\ pc[t] = "idle"
    /\ last' = [emitter |-> "simple", en |-> FALSE, ret |-> "flush"]
    /\ UNCHANGED << mutex, terminal, line, plain, pc, rec, emitter, ncalls,
                    faults >>
    /\ UNCHANGED << loggers, ctorvars >>

\* ------------------------------------------------------- construction

\* A direct call of TermLogger::new.
TermLogger_new_call(lvl, cfg) ==
    /\ termlogger' = TermLogger_new(lvl, cfg, avail)
    /\ built' = [built EXCEPT !.term = Some(<< lvl, cfg >>)]
    /\ called' = "TermLogger::new"
    /\ UNCHANGED << simplelogger, avail, initres, global, maxlevel >>
    /\ UNCHANGED logvars

\* TermLogger::init: try!(new().ok_or(Term)); set_max_level;
\* try!(set_boxed_logger(logger)); Ok(())
TermLogger_init(lvl, cfg) ==
    LET logger == TermLogger_new(lvl, cfg, avail)
        reg == set_boxed_logger(global, "TermLogger")
    IN  /\ called' = "TermLogger::init"
        /\ built' = [built EXCEPT !.term = Some(<< lvl, cfg >>)]
        /\ IF ok_or_Term(logger) = "Term"
             THEN /\ initres' = "Term"
                  /\ termlogger' = None
                  /\ UNCHANGED << global, maxlevel >>
             ELSE /\ maxlevel' = lvl
                  /\ global' = reg.global
                  /\ initres' = reg.res
                  /\ termlogger' = IF reg.res = "Ok" THEN logger ELSE None
        /\ UNCHANGED << simplelogger, avail >>
        /\ UNCHANGED logvars

\* A direct call of SimpleLogger::new.
SimpleLogger_new_call(lvl, cfg) ==
    /\ simplelogger' = Some(SimpleLogger_new(lvl, cfg))
    /\ built' = [built EXCEPT !.simple = Some(<< lvl, cfg >>)]
    /\ called' = "SimpleLogger::new"
    /\ UNCHANGED << termlogger, avail, initres, global, maxlevel >>
    /\ UNCHANGED logvars

\* SimpleLogger::init: set_max_level; set_boxed_logger(SimpleLogger::new(..))
SimpleLogger_init(lvl, cfg) ==
    LET logger == Some(SimpleLogger_new(lvl, cfg))
        reg == set_boxed_logger(global, "SimpleLogger")
    IN  /\ called' = "SimpleLogger::init"
        /\ built' = [built EXCEPT !.simple = Some(<< lvl, cfg >>)]
        /\ maxlevel' = lvl
        /\ global' = reg.global
        /\ initres' = reg.res
        /\ simplelogger' = IF reg.res = "Ok" THEN logger ELSE None
        /\ UNCHANGED << termlogger, avail >>
        /\ UNCHANGED logvars

NextCtor ==
    \E a \in ConcInputs :
        \/ TermLogger_new_call(a[1], a[2])
        \/ TermLogger_init(a[1], a[2])
        \/ SimpleLogger_new_call(a[1], a[2])
        \/ SimpleLogger_init(a[1], a[2])

SpecCtor == InitCtor /\ [][NextCtor]_vars

\* ------------------------------------------------------------- logging

Step(t) ==
    \/ \E e \in {"simple", "term"}, lvl \in Level : Call(t, e, lvl)
    \/ \E ok \in BOOLEAN : SimpleLogger_log(t, ok)
    \/ TermLogger_try_log(t)
    \/ TermLogger_lock(t)
    \/ StepOk(t)
    \/ StepErr(t)
    \/ StepPanic(t)

\* Any number of threads logging through the two emitters.
Next == \E t \in Threads : Step(t)

Spec == Init /\ [][Next]_vars

\* One thread logging through the two emitters, over every construction.
NextSeq == Step(1)

SpecSeq == InitSeq /\ [][NextSeq]_vars

\* What thread t's call does next, once it has been made.
Proceed(t) ==
    \/ \E ok \in BOOLEAN : SimpleLogger_log(t, ok)
    \/ TermLogger_try_log(t)
    \/ TermLogger_lock(t)
    \/ StepOk(t)
    \/ StepErr(t)
    \/ StepPanic(t)

\* Fair scheduling: a thread inside a call that can go on does go on; a
\* thread waiting at lock() gets the lock if it stays free.
Fairness == \A t \in Threads : WF_vars(Proceed(t))

SpecFair == Init /\ [][Next]_vars /\ Fairness

\* The arguments the emitters are constructed with in the runs where
\* threads call flush as well as log.
FlushInputs == { << Info, Rot(0) >>, << Trace, Rot(4) >>, << Warn, AllNone >> }

InitFlush ==
    /\ \E a \in FlushInputs : Constructed(a[1], a[2])
    /\ LogInit

\* Any number of threads calling log and flush on the two emitters.
NextFlush ==
    \E t \in Threads :
        \/ Step(t)
        \/ TermLogger_flush(t)
        \/ SimpleLogger_flush(t)

SpecFlush == InitFlush /\ [][NextFlush]_vars

\* ------------------------------------------------------------- claims

\* The severities at least as severe as a filter level or threshold, and
\* those at most as severe as it, written out (Error most severe, Trace
\* least; nothing is as severe as Off).
AsSevereAs(l) ==
    CASE l = Off   -> {}
      [] l = Error -> {Error}
      [] l = Warn  -> {Error, Warn}
      [] l = Info  -> {Error, Warn, Info}
      [] l = Debug -> {Error, Warn, Info, Debug}
      [] l = Trace -> {Error, Warn, Info, Debug, Trace}

AtMostAsSevereAs(l) ==
    CASE l = Error -> {Error, Warn, Info, Debug, Trace}
      [] l = Warn  -> {Warn, Info, Debug, Trace}
      [] l = Info  -> {Info, Debug, Trace}
      [] l = Debug -> {Debug, Trace}
      [] l = Trace -> {Trace}

\* The destination the routing rule gives a severity.
Route(l) ==
    CASE l = Error -> "stderr"
      [] l \in {Warn, Info, Debug, Trace} -> "stdout"

\* The filter level of the emitter thread t is calling.
FilterOf(t) ==
    IF emitter[t] = "term" THEN termlogger[1].level ELSE simplelogger[1].level

\* Thread t leaves the enabled test of its call in this step.
Tested(t) == pc[t] = "log" /\ pc'[t] # "log"

\* C1: in both emitters, for every record severity S and every filter level
\* L, the enabled test of a log call gives true (the TermLogger call goes on
\* to lock its destination, the returned call reports enabled) exactly when
\* S is at least as severe as L; with L = Off never.
C1_EnabledIffSevereEnough ==
    [][\A t \in Threads :
          Tested(t) =>
             ((IF pc'[t] = "lock" THEN TRUE ELSE last'.en)
                 <=> rec[t] \in AsSevereAs(FilterOf(t)))]_vars

\* A TermLogger call of an enabled record waits for its lock after a
\* SimpleLogger call of a disabled record has returned.
C1_Witness ==
    \E t \in Threads :
       /\ pc[t] = "lock"
       /\ last.emitter = "simple"
       /\ last.ret = "Ok"
       /\ ~last.en

\* C2: a log call with a record below the filter level is a no-op in both
\* emitters: nothing is written to either destination, no colour changes,
\* nothing is flushed, no lock is taken, and the call returns normally.
C2_DisabledIsNoOp ==
    [][\A t \in Threads :
          (Tested(t) /\ rec[t] \notin AsSevereAs(FilterOf(t))) =>
             /\ UNCHANGED << mutex, terminal, line, plain >>
             /\ pc'[t] = "idle"
             /\ last'.ret = "Ok"
             /\ ~last'.en]_vars

\* A TermLogger call of a disabled record has returned.
C2_Witness ==
    /\ last.emitter = "term"
    /\ ~last.en
    /\ last.ret = "Ok"
    /\ \A t \in Threads : pc[t] = "idle"

\* C3: routing by severity in both emitters: every operation on the error
\* destination belongs to an Error record and every operation on the
\* standard destination to a record of another severity; after any sequence
\* of calls the error destination holds Error records only and the standard
\* destination none.
C3_Routing ==
    \A d \in Dests :
       /\ \A i \in DOMAIN line[d] : Route(line[d][i].lvl) = d
       /\ \A l \in terminal[d].content : Route(l) = d
       /\ \A l \in plain[d] : Route(l) = d
       /\ mutex[d].holder # 0 => Route(rec[mutex[d].holder]) = d

\* TermLogger has written an Error record and SimpleLogger a record of
\* another severity, and both calls have returned.
C3_Witness ==
    /\ terminal["stderr"].content = {Error}
    /\ plain["stdout"] # {}
    /\ \A t \in Threads : pc[t] = "idle"

\* The metadata fields; each is the name of its threshold in the
\* configuration and of the step that writes it.
Fields == {"time", "level", "target", "location"}

\* The steps of thread t's record that were carried out on its destination.
Written(t) ==
    LET l == line[Route(rec[t])]
    IN  {l[i].op : i \in {j \in DOMAIN l : l[j].by = t /\ l[j].r = "Ok"}}

\* Thread t has passed every metadata step of an enabled record and is about
\* to write the message.
AtMessage(t) == pc[t] = "args"

RecordSteps(cfg, lvl) == SelectSeq(Steps, LAMBDA op : StepGate(op, cfg, lvl))

\* The first n steps of thread t's record, as they appear on a terminal.
Rendered(t, n) ==
    [i \in 1 .. n |->
        LET op == RecordSteps(termlogger[1].config, rec[t])[i]
        IN  [by |-> t, lvl |-> rec[t], op |-> op, r |-> "Ok"]]

Plain(l) ==
    [i \in DOMAIN l |->
        [by |-> l[i].by, lvl |-> l[i].lvl, op |-> l[i].op, r |-> l[i].r]]

\* The position of step op in the steps of thread t's record.
Position(t, op) ==
    LET rs == RecordSteps(termlogger[1].config, rec[t])
    IN  CHOOSE i \in DOMAIN rs : rs[i] = op

\* C5: records on one destination do not interleave.  A thread renders on a
\* destination only while it holds that destination's lock; from the
\* record's first step to its flush the operations on the destination are
\* exactly the steps of that one record, in order and without a gap, so at
\* the flush the whole record is there; any other caller of the destination
\* waits at the lock.
C5_NoInterleaving ==
    \A d \in Dests :
       /\ \A t \in Threads :
             (pc[t] \in StepNames /\ Route(rec[t]) = d) => mutex[d].holder = t
       /\ LET h == mutex[d].holder
          IN  IF h = 0 THEN line[d] = << >>
              ELSE /\ pc[h] \in StepNames
                   /\ Plain(line[d]) = Rendered(h, Position(h, pc[h]) - 1)

\* One thread is about to flush a record of several steps while another
\* waits for the lock of the same destination.
C5_Witness ==
    \E t, u \in Threads :
       /\ t # u
       /\ pc[t] = "flush"
       /\ Len(line[Route(rec[t])]) >= 3
       /\ pc[u] = "lock"
       /\ Route(rec[u]) = Route(rec[t])

\* The process has both terminals.
BothTerminals == avail.stderr /\ avail.stdout

\* C6: TermLogger construction is all-or-nothing: an instance exists only
\* when both terminal handles were acquired, and then it holds both; when
\* either is missing TermLogger::new gives None and TermLogger::init gives
\* the Term error.
C6_AllOrNothing ==
    /\ termlogger # None =>
          /\ BothTerminals
          /\ termlogger[1].stderr = "StderrTerminal"
          /\ termlogger[1].stdout = "StdoutTerminal"
    /\ (called = "TermLogger::new" /\ ~BothTerminals) => termlogger = None
    /\ (called = "TermLogger::init" /\ ~BothTerminals) =>
          /\ initres = "Term"
          /\ termlogger = None

\* TermLogger::init has failed with Term on a process that has a stdout
\* terminal and no stderr terminal.
C6_Witness ==
    /\ called = "TermLogger::init"
    /\ initres = "Term"
    /\ avail.stdout
    /\ ~avail.stderr

\* A step of thread t's try_log_term returns an I/O error in this step.
Failed(t) ==
    /\ pc[t] \in StepNames
    /\ pc'[t] # pc[t]
    /\ pc'[t] # "panicked_args"
    /\ faults' = faults + 1

\* C7: when a step of rendering a record fails, no later step of the record
\* is carried out: the call ends there, the terminal is left as it was
\* before the step, the guard is dropped, the private chain's result is the
\* I/O error, and log returns normally.
C7_AbortAndSwallow ==
    [][\A t \in Threads :
          Failed(t) =>
             /\ pc'[t] = "idle"
             /\ last' = [emitter |-> "term", en |-> TRUE, ret |-> "Err"]
             /\ terminal' = terminal
             /\ mutex'[Route(rec[t])].holder = 0]_vars

\* A TermLogger call has returned after one of its steps failed, with bytes
\* of an earlier step of the record written.
C7_Witness ==
    /\ last = [emitter |-> "term", en |-> TRUE, ret |-> "Err"]
    /\ \A t \in Threads : pc[t] = "idle"
    /\ \E d \in Dests : terminal[d].pending

\* C8: no TermLogger log call panics in the emitter's own code: in
\* particular none panics when it acquires its destination lock, whatever
\* happened in earlier calls on the destination.
C8_NoPanicAtLock == \A t \in Threads : pc[t] # "panicked_lock"

\* C9: the colour is set only around the severity label: the timestamp,
\* target, location and message of every record are written in the default
\* colour, and a destination whose lock is free has the default colour.
C9_ColourIsolation ==
    \A d \in Dests :
       /\ mutex[d].holder = 0 => terminal[d].fg = DEFAULT
       /\ \A i \in DOMAIN line[d] :
             line[d][i].op \in {"time", "target", "location", "args"} =>
                line[d][i].fg = DEFAULT

\* C10: every TermLogger log call flushes as its final step before the lock
\* is released: a guard is never dropped on return while bytes are buffered
\* unless the step that ends the call is the flush.
C10_FlushBeforeRelease ==
    [][\A d \in Dests :
          (/\ mutex[d].holder # 0
           /\ mutex'[d].holder = 0
           /\ ~mutex'[d].poisoned
           /\ terminal[d].pending) => pc[mutex[d].holder] = "flush"]_vars

\* The place of each step in the rendering order: timestamp, severity label
\* (colour, label, reset), target, source location, message, flush; taking
\* the lock comes before all of them.
Rank(op) ==
    CASE op = "lock"     -> 0
      [] op = "time"     -> 1
      [] op = "fg"       -> 2
      [] op = "level"    -> 3
      [] op = "reset"    -> 4
      [] op = "target"   -> 5
      [] op = "location" -> 6
      [] op = "args"     -> 7
      [] op = "flush"    -> 8

\* Whether the per-field threshold rule has thread t's record carry field f.
Open(f, t) ==
    LET thr == termlogger[1].config[f]
    IN  thr # None /\ rec[t] \in AtMostAsSevereAs(thr[1])

\* Whether the rendering rule has thread t's call carry out step op: the
\* message and the flush always, a metadata step when its field is open.
Due(op, t) ==
    CASE op \in {"args", "flush"}          -> TRUE
      [] op \in {"fg", "level", "reset"}   -> Open("level", t)
      [] op \in {"time", "target", "location"} -> Open(op, t)

\* Thread t's call advances in this step and nothing fails.
Advances(t) ==
    /\ pc[t] \in StepNames \cup {"lock"}
    /\ pc'[t] # pc[t]
    /\ faults' = faults

\* C11: fixed rendering order and ungated message.  While nothing fails, a
\* TermLogger call of an enabled record goes from the lock through its steps
\* in the order timestamp, severity label, target, source location, message,
\* flush: each step is followed by the nearest later step that is due, a
\* metadata step is skipped only when its gate is closed, the message is
\* written once whatever the thresholds are (all fields disabled included),
\* after every metadata field, and it is followed by the one flush, which
\* ends the call.
C11_FixedOrder ==
    [][\A t \in Threads :
          Advances(t) =>
             IF pc[t] = "flush" THEN pc'[t] = "idle"
             ELSE /\ pc'[t] \in StepNames
                  /\ Rank(pc[t]) < Rank(pc'[t])
                  /\ Due(pc'[t], t)
                  /\ \A op \in StepNames :
                        (Rank(pc[t]) < Rank(op) /\ Rank(op) < Rank(pc'[t]))
                           => ~Due(op, t)
                  /\ pc[t] = "args" => pc'[t] = "flush"
                  /\ pc'[t] = "flush" => pc[t] = "args"]_vars

\* With every field disabled, the message of a record was written as the
\* only step and the call is about to flush.
C11_Witness ==
    \E t \in Threads :
       /\ pc[t] = "flush"
       /\ termlogger[1].config = AllNone
       /\ Len(line[Route(rec[t])]) = 1
       /\ line[Route(rec[t])][1].op = "args"
       /\ terminal[Route(rec[t])].pending

\* C12: destination independence.  A TermLogger call waiting for the lock of
\* its destination can take it whenever no call holds that destination,
\* whoever holds the other one, and a call that is rendering can always
\* carry out its next step: a call on one destination starts, renders and
\* completes while another thread is in the middle of a record on the other.
C12_DestinationIndependence ==
    \A t \in Threads :
       /\ (pc[t] = "lock" /\ mutex[Route(rec[t])].holder = 0)
             => ENABLED TermLogger_lock(t)
       /\ pc[t] \in StepNames => ENABLED StepOk(t)

\* One thread is in the middle of a record on the standard destination, its
\* label written in colour, while another thread holds the lock of the error
\* destination and is about to flush an Error record.
C12_Witness ==
    \E t, u \in Threads :
       /\ mutex["stdout"].holder = t
       /\ mutex["stderr"].holder = u
       /\ t # u
       /\ pc[t] = "reset"
       /\ pc[u] = "flush"
       /\ terminal["stdout"].pending
       /\ terminal["stderr"].pending

\* A call of flush on one of the emitters returns in this step.
FlushCall == last'.ret = "flush" /\ last' # last

\* C13: flush() is a no-op on both emitters: a call of it, in any state of
\* the other threads, writes nothing, takes no lock, changes no colour and
\* leaves both emitters (level and configuration) and both destinations as
\* they were; and no log call that completed successfully leaves unflushed
\* output on its destination.
C13_FlushNoOp ==
    [][/\ FlushCall =>
             UNCHANGED << termlogger, simplelogger, built, mutex, terminal,
                          line, plain, pc, rec, emitter, ncalls, faults >>
       /\ \A t \in Threads :
             (/\ pc[t] \in StepNames
              /\ pc'[t] = "idle"
              /\ last'.ret = "Ok") => ~terminal'[Route(rec[t])].pending]_vars

\* flush has been called on the TermLogger while bytes of a record that
\* another thread is rendering are buffered on a locked destination.
C13_Witness ==
    /\ last = [emitter |-> "term", en |-> FALSE, ret |-> "flush"]
    /\ \E d \in Dests :
          /\ mutex[d].holder # 0
          /\ terminal[d].pending

\* The colour the mapping gives each severity.
Colour(l) ==
    CASE l = Error -> "RED"
      [] l = Warn  -> "YELLOW"
      [] l = Info  -> "BLUE"
      [] l = Debug -> "CYAN"
      [] l = Trace -> "WHITE"

\* C14: fixed colour mapping.  Whenever the severity label of a record is
\* written, the step just before it set the foreground colour, to red for
\* Error, yellow for Warn, blue for Info, cyan for Debug and white for Trace,
\* and the label is written in that colour; no colour is ever set but the
\* one of the record's severity, and a terminal never has a colour other
\* than the default and these five.
C14_ColourMapping ==
    \A d \in Dests :
       /\ terminal[d].fg \in {DEFAULT} \cup {Colour(l) : l \in Level}
       /\ \A i \in DOMAIN line[d] :
             LET e == line[d][i]
             IN  /\ (e.op = "fg" /\ e.r = "Ok") => e.fg = Colour(e.lvl)
                 /\ e.op = "level" =>
                       /\ i > 1
                       /\ line[d][i - 1].op = "fg"
                       /\ line[d][i - 1].lvl = e.lvl
                       /\ line[d][i - 1].fg = Colour(e.lvl)
                       /\ e.fg = Colour(e.lvl)

\* The label of a Debug record was written in cyan after its timestamp.
C14_Witness ==
    \E i \in DOMAIN line["stdout"] :
       /\ i > 2
       /\ line["stdout"][i].op = "level"
       /\ line["stdout"][i].lvl = Debug
       /\ line["stdout"][i].fg = "CYAN"
       /\ line["stdout"][i].r = "Ok"

\* C15: immutability after construction.  In every state of any number of
\* threads calling log (calls that fail and calls that panic included) and
\* flush on the two emitters, level() gives the filter level and config()
\* the Display Configuration that the emitter's constructor was called with.
C15_Immutable ==
    /\ termlogger # None =>
          /\ TermLogger_level(termlogger[1]) = built.term[1][1]
          /\ TermLogger_config(termlogger[1]) = Some(built.term[1][2])
    /\ simplelogger # None =>
          /\ SimpleLogger_level(simplelogger[1]) = built.simple[1][1]
          /\ SimpleLogger_config(simplelogger[1]) = Some(built.simple[1][2])

\* Two log calls have been made, one of which failed, and flush was called.
C15_Witness ==
    /\ termlogger # None
    /\ simplelogger # None
    /\ ncalls >= 2
    /\ faults >= 1
    /\ last.ret = "flush"
    /\ \E d \in Dests : terminal[d].content # {}
    /\ \A t \in Threads : pc[t] = "idle"

\* C16: at most one lock per call, and no deadlock.  No thread ever holds
\* the locks of both destinations; whoever holds a lock is rendering a
\* record on that destination, is not waiting for anything and can take its
\* next step; so a thread waiting for a lock never waits for a thread that
\* is itself waiting, and no state has every thread blocked.
C16_AtMostOneLock ==
    /\ \A t \in Threads :
          ~(mutex["stderr"].holder = t /\ mutex["stdout"].holder = t)
    /\ \A d \in Dests :
          LET h == mutex[d].holder
          IN  h # 0 =>
                 /\ pc[h] \in StepNames
                 /\ Route(rec[h]) = d
                 /\ ENABLED StepOk(h)
    /\ \A t \in Threads :
          pc[t] = "lock" =>
             \/ ENABLED TermLogger_lock(t)
             \/ \E h \in Threads \ {t} :
                   /\ mutex[Route(rec[t])].holder = h
                   /\ pc[h] # "lock"

\* A thread waits for the lock of the destination another thread is writing
\* the message on, while the other destination is free.
C16_Witness ==
    \E t, u \in Threads, d \in Dests :
       /\ t # u
       /\ mutex[d].holder = t
       /\ pc[t] = "args"
       /\ pc[u] = "lock"
       /\ Route(rec[u]) = d
       /\ \A o \in Dests \ {d} : mutex[o].holder = 0

\* C17: lock release and progress.  A TermLogger call that holds a
\* destination lock has released it when the call ends, after success and
\* after a failed step alike; and under fair scheduling every call waiting
\* for a destination lock eventually acquires it and starts rendering, and
\* every call eventually ends (a call whose own message formatting panics,
\* unwinding into its caller, is counted as ended).
C17_ReleaseAndProgress ==
    /\ [][\A t \in Threads :
             (pc[t] \in StepNames /\ pc'[t] \notin StepNames) =>
                mutex'[Route(rec[t])].holder = 0]_vars
    /\ \A t \in Threads : pc[t] = "lock" ~> pc[t] \in StepNames
    /\ \A t \in Threads :
          pc[t] # "idle" ~> pc[t] \in {"idle", "panicked_args"}

\* C18: a failed global initialisation has no effect: when SimpleLogger::init
\* or TermLogger::init returns an error (another logger is registered, or
\* TermLogger finds no terminal), the facade's maximum level and its
\* registered logger are what they were before the call.
C18_FailedInitNoEffect ==
    [][(/\ called' \in {"SimpleLogger::init", "TermLogger::init"}
        /\ initres' # "Ok")
          => (global' = global /\ maxlevel' = maxlevel)]_vars

====
